---- MODULE Spec2Model ----
(***************************************************************************)
(* Student Management Dashboard: the useStudents / useCourses hooks, the   *)
(* App component's handlers, the StudentForm submission path, the          *)
(* StudentList search filter and the localStorage utilities.               *)
(*                                                                         *)
(* A JavaScript string is a sequence of one-character strings, so that     *)
(* trim, toLowerCase, includes and the e-mail regular expression are       *)
(* computed character by character.                                        *)
(***************************************************************************)
EXTENDS Integers, Sequences, FiniteSets, TLC

\* ------------------------------------------------------------------ bounds

\* The last value of Date.now() the session reaches (it starts at 1).
MaxClock == 3
\* Longest search term enumerated by SearchSpec.
MaxTermLen == 2

\* ------------------------------------------------------- program constants

\* StudentForm.tsx:73  formData.name.trim().length < 2
MinNameLen == 2
\* StudentForm.tsx:135  Math.floor(Math.random() * 1000) + 1000
PhotoBase == 1000

\* ----------------------------------------------------------------- strings

Whitespace == {" "}

UpperLetters ==
  <<"A","B","C","D","E","F","G","H","I","J","K","L","M",
    "N","O","P","Q","R","S","T","U","V","W","X","Y","Z">>

LowerLetters ==
  <<"a","b","c","d","e","f","g","h","i","j","k","l","m",
    "n","o","p","q","r","s","t","u","v","w","x","y","z">>

\* String.prototype.toLowerCase on one character.
toLowerCaseChar(c) ==
  IF \E i \in 1..Len(UpperLetters) : UpperLetters[i] = c
  THEN LowerLetters[CHOOSE i \in 1..Len(UpperLetters) : UpperLetters[i] = c]
  ELSE c

\* String.prototype.toLowerCase.
toLowerCase(s) == [i \in 1..Len(s) |-> toLowerCaseChar(s[i])]

\* String.prototype.trim: drops leading and trailing white space.
trim(s) ==
  LET keep == {i \in 1..Len(s) : s[i] \notin Whitespace}
  IN  IF keep = {} THEN <<>>
      ELSE SubSeq(s, CHOOSE i \in keep : \A j \in keep : i <= j,
                     CHOOSE i \in keep : \A j \in keep : j <= i)

\* String.prototype.includes.
includes(s, t) ==
  \E off \in 0..(Len(s) - Len(t)) : SubSeq(s, off + 1, off + Len(t)) = t

\* The strings the model types into the form and stores.
StrEmpty == <<>>
StrA == <<"A">>
StrAnn == <<"A","n","n">>
StrBoPadded == <<" ","B","o"," ">>
StrBo == <<"B","o">>
StrEmailBob == <<"X","@","B","o","b",".","c","o","m">>
StrEmailBobLower == <<"x","@","b","o","b",".","c","o","m">>
StrEmailPadded == <<" ","a","@","b",".","c","o"," ">>
StrEmailAB == <<"a","@","b",".","c","o","m">>
StrBobTerm == <<"b","o","b">>

\* ------------------------------------------------------------------ api.ts

mockCourses ==
  << [id |-> 1, name |-> <<"H","T","M","L"," ","B","a","s","i","c","s">>],
     [id |-> 2, name |-> <<"C","S","S"," ","M","a","s","t","e","r","y">>],
     [id |-> 3, name |-> <<"J","a","v","a","S","c","r","i","p","t"," ","P","r","o">>],
     [id |-> 4, name |-> <<"R","e","a","c","t"," ","I","n"," ","D","e","p","t","h">>],
     [id |-> 5, name |-> <<"N","o","d","e",".","j","s"," ","B","a","c","k","e","n","d">>],
     [id |-> 6, name |-> <<"P","y","t","h","o","n"," ","F","u","n","d","a","m","e","n","t","a","l","s">>],
     [id |-> 7, name |-> <<"D","a","t","a","b","a","s","e"," ","D","e","s","i","g","n">>],
     [id |-> 8, name |-> <<"U","I","/","U","X"," ","D","e","s","i","g","n">> ] >>


\* Mutant: the pattern without its dot and last segment, /^[^\s@]+@[^\s@]+$/.
validateEmailNoDot(email) ==
  \E i \in 1..Len(email) :
    /\ email[i] = "@"
    /\ 1 < i
    /\ i < Len(email)
    /\ \A k \in 1..Len(email) :
         k # i => email[k] \notin (Whitespace \cup {"@"})

\* /^[^\s@]+@[^\s@]+\.[^\s@]+$/ : a local part, an @, a domain, a dot and a
\* last segment, each part non-empty and free of white space and @.
validateEmail(email) ==
  LET plain(lo, hi) == \A k \in lo..hi : email[k] \notin (Whitespace \cup {"@"})
  IN  \E i \in 1..Len(email) : \E j \in 1..Len(email) :
        /\ email[i] = "@"
        /\ email[j] = "."
        /\ 1 < i
        /\ i + 1 < j
        /\ j < Len(email)
        /\ plain(1, i - 1)
        /\ plain(i + 1, j - 1)
        /\ plain(j + 1, Len(email))

\* Mutant: an id made of the random suffix alone.
generateIdNoTimestamp(time, rand) == <<0, rand>>

\* Date.now().toString(36) + Math.random().toString(36).substr(2): the
\* time stamp followed by the random suffix.  The encoded time stamp has a
\* fixed width, so the concatenation is the pair.
generateId(time, rand) == <<time, rand>>

\* --------------------------------------------------------------- storage.ts

BlobAbsent == [kind |-> "absent", text |-> <<>>]
BlobCorrupt == [kind |-> "corrupt", text |-> <<>>]

StudentFields == <<"id", "name", "email", "enrolledCourse", "profileImage", "dateEnrolled">>

\* What JSON.parse returns for the text "null": a value that is no array.
null == [i \in {0} |-> "null"]

\* The JSON text "null".
NullText == [i \in {0} |-> <<"n","u","l","l">>]

\* Array.isArray.
isArray(value) == DOMAIN value = 1..Cardinality(DOMAIN value)

\* A stored item that is valid JSON but no array, and one that is an array
\* of an object without properties: 'null' and '[{}]'.
BlobNull == [kind |-> "json", text |-> NullText]
BlobEmptyObject == [kind |-> "json", text |-> <<(<<>>)>>]

\* JSON.stringify: of null, the text "null"; of an array of objects, per
\* object its own key/value pairs in property order.
JSONstringify(value) ==
  IF ~isArray(value) THEN NullText
  ELSE [i \in 1..Len(value) |->
          LET keys == SelectSeq(StudentFields, LAMBDA f : f \in DOMAIN value[i])
          IN  [k \in 1..Len(keys) |-> <<keys[k], value[i][keys[k]]>>]]

\* Mutant: the entries come back in reverse order.
JSONparseReversed(text) ==
  IF ~isArray(text) THEN null
  ELSE [i \in 1..Len(text) |->
          LET entry == text[Len(text) + 1 - i]
          IN  [f \in {entry[k][1] : k \in 1..Len(entry)} |->
                 LET k == CHOOSE k \in 1..Len(entry) : entry[k][1] = f
                 IN  entry[k][2]]]

\* JSON.parse of such a text: null, or per entry the object of its
\* key/value pairs.
JSONparse(text) ==
  IF ~isArray(text) THEN null
  ELSE [i \in 1..Len(text) |->
          [f \in {text[i][k][1] : k \in 1..Len(text[i])} |->
             LET k == CHOOSE k \in 1..Len(text[i]) : text[i][k][1] = f
             IN  text[i][k][2]]]

\* getStoredStudents: the parsed blob, whatever JSON.parse makes of it; []
\* when the item is absent (or the empty string), and [] from the catch
\* branch when JSON.parse throws.
getStoredStudents(b) ==
  IF b.kind = "json" THEN JSONparse(b.text) ELSE <<>>

\* saveStudents: setItem of the serialized list; when setItem throws
\* (ok = FALSE) the error is logged and the item keeps its content.
saveStudents(b, list, ok) ==
  IF ok THEN [kind |-> "json", text |-> JSONstringify(list)] ELSE b

\* ------------------------------------------------------------------- state

VARIABLES
  mounted,          \* App has been mounted and its mount effects have run
  now,              \* the last value Date.now() has shown
  blob,             \* the localStorage item 'students_data'
  \* useStudents
  students,         \* useState<Student[]>([])
  studentsLoading,  \* useState(true)
  loaded,           \* history: <<the list getStoredStudents returned>>
  firstSave,        \* history: <<the list of the first saveStudents call>>
  saveFailed,       \* history: some saveStudents call has caught an error
  \* useCourses
  courses,          \* useState<Course[]>([])
  coursesLoading,   \* useState(true)
  coursesError,     \* useState<string | null>(null); <<>> is null
  pendingFetches,   \* fetchCourses() calls not yet resolved
  \* App
  showForm,         \* useState(false)
  editingStudent,   \* useState<Student | null>(null); <<>> is null
  searchTerm,       \* useState('')
  \* StudentForm
  formData,         \* the controlled inputs
  errors,           \* FormErrors; "" is an absent key
  isSubmitting,     \* useState(false)
  submission        \* the closure of the handleSubmit call that is awaiting

studentVars == <<students, studentsLoading, loaded, firstSave, saveFailed>>
courseVars == <<courses, coursesLoading, coursesError, pendingFetches>>
appVars == <<showForm, editingStudent, searchTerm>>
formVars == <<formData, errors, isSubmitting, submission>>
vars == <<mounted, now, blob, studentVars, courseVars, appVars, formVars>>

\* -------------------------------------------------------------- StudentForm

EmptyForm ==
  [name |-> <<>>, email |-> <<>>, enrolledCourse |-> <<>>, profileImage |-> <<>>]

NoErrors == [name |-> "", email |-> "", enrolledCourse |-> ""]

\* The form's fields as initialised from the student being edited.
formOf(student) ==
  [name |-> student.name, email |-> student.email,
   enrolledCourse |-> student.enrolledCourse, profileImage |-> student.profileImage]

\* Mutant: the name is too short up to and including MinNameLen.
validateFormNameOffByOne(fd) ==
  [name |->
     IF trim(fd.name) = <<>> THEN "Name is required"
     ELSE IF Len(trim(fd.name)) <= MinNameLen THEN "Name must be at least 2 characters"
     ELSE "",
   email |->
     IF trim(fd.email) = <<>> THEN "Email is required"
     ELSE IF ~validateEmail(fd.email) THEN "Please enter a valid email address"
     ELSE "",
   enrolledCourse |->
     IF fd.enrolledCourse = <<>> THEN "Please select a course" ELSE ""]

\* Mutant: the rules as an else-if chain, each hidden by an earlier error.
validateFormShortCircuit(fd) ==
  LET nameError ==
        IF trim(fd.name) = <<>> THEN "Name is required"
        ELSE IF Len(trim(fd.name)) < MinNameLen THEN "Name must be at least 2 characters"
        ELSE ""
      emailError ==
        IF nameError # "" THEN ""
        ELSE IF trim(fd.email) = <<>> THEN "Email is required"
        ELSE IF ~validateEmail(fd.email) THEN "Please enter a valid email address"
        ELSE ""
      courseError ==
        IF nameError # "" \/ emailError # "" THEN ""
        ELSE IF fd.enrolledCourse = <<>> THEN "Please select a course" ELSE ""
  IN  [name |-> nameError, email |-> emailError, enrolledCourse |-> courseError]

\* Mutant: no rule for the course.
validateFormNoCourseRule(fd) ==
  [name |->
     IF trim(fd.name) = <<>> THEN "Name is required"
     ELSE IF Len(trim(fd.name)) < MinNameLen THEN "Name must be at least 2 characters"
     ELSE "",
   email |->
     IF trim(fd.email) = <<>> THEN "Email is required"
     ELSE IF ~validateEmail(fd.email) THEN "Please enter a valid email address"
     ELSE "",
   enrolledCourse |-> ""]

\* validateForm's newErrors: the three rules, each evaluated on its own.
validateForm(fd) ==
  [name |->
     IF trim(fd.name) = <<>> THEN "Name is required"
     ELSE IF Len(trim(fd.name)) < MinNameLen THEN "Name must be at least 2 characters"
     ELSE "",
   email |->
     IF trim(fd.email) = <<>> THEN "Email is required"
     ELSE IF ~validateEmail(fd.email) THEN "Please enter a valid email address"
     ELSE "",
   enrolledCourse |->
     IF fd.enrolledCourse = <<>> THEN "Please select a course" ELSE ""]

\* Object.keys(newErrors).length === 0
isValid(fd) == validateForm(fd) = NoErrors

\* new Date().toISOString()
toISOString(time) == <<time>>

\* The placeholder image URL built from two random photo numbers.
placeholderImage(p1, p2) == <<"pexels", p1, p2>>

\* Mutant: the enrollment date is set anew on every submission.
studentDataNewDate(fd, student, time, rand, p1, p2) ==
  [id |->
     IF student # <<>> /\ student[1].id # <<>> THEN student[1].id
     ELSE generateId(time, rand),
   name |-> trim(fd.name),
   email |-> toLowerCase(trim(fd.email)),
   enrolledCourse |-> fd.enrolledCourse,
   profileImage |->
     IF fd.profileImage # <<>> THEN fd.profileImage ELSE placeholderImage(p1, p2),
   dateEnrolled |-> toISOString(time)]

\* Mutant: the e-mail is trimmed but not lower-cased.
studentDataRawEmail(fd, student, time, rand, p1, p2) ==
  [id |->
     IF student # <<>> /\ student[1].id # <<>> THEN student[1].id
     ELSE generateId(time, rand),
   name |-> trim(fd.name),
   email |-> trim(fd.email),
   enrolledCourse |-> fd.enrolledCourse,
   profileImage |->
     IF fd.profileImage # <<>> THEN fd.profileImage ELSE placeholderImage(p1, p2),
   dateEnrolled |->
     IF student # <<>> /\ student[1].dateEnrolled # <<>> THEN student[1].dateEnrolled
     ELSE toISOString(time)]

\* The Student object handleSubmit builds after its await, from the form
\* data and the student prop of the render that was submitted.
studentData(fd, student, time, rand, p1, p2) ==
  [id |->
     IF student # <<>> /\ student[1].id # <<>> THEN student[1].id
     ELSE generateId(time, rand),
   name |-> trim(fd.name),
   email |-> toLowerCase(trim(fd.email)),
   enrolledCourse |-> fd.enrolledCourse,
   profileImage |->
     IF fd.profileImage # <<>> THEN fd.profileImage ELSE placeholderImage(p1, p2),
   dateEnrolled |->
     IF student # <<>> /\ student[1].dateEnrolled # <<>> THEN student[1].dateEnrolled
     ELSE toISOString(time)]

\* -------------------------------------------------------------- useStudents

\* Mutant: the new record is put first.
addStudentPrepend(prev, student) == <<student>> \o prev

\* setStudents(prev => [...prev, student])
addStudent(prev, student) == Append(prev, student)

\* Mutant: the updated record is taken out and put last.
updateStudentMoveToEnd(prev, updated) ==
  IF \E i \in 1..Len(prev) : prev[i].id = updated.id
  THEN SelectSeq(prev, LAMBDA s : s.id # updated.id) \o <<updated>>
  ELSE prev

\* Mutant: a record whose id is not in the list is added.
updateStudentUpsert(prev, updated) ==
  IF \E i \in 1..Len(prev) : prev[i].id = updated.id
  THEN [i \in 1..Len(prev) |-> IF prev[i].id = updated.id THEN updated ELSE prev[i]]
  ELSE Append(prev, updated)

\* setStudents(prev => prev.map(s => s.id === updated.id ? updated : s))
updateStudent(prev, updated) ==
  [i \in 1..Len(prev) |-> IF prev[i].id = updated.id THEN updated ELSE prev[i]]

RECURSIVE filterOut(_, _)
filterOut(prev, studentId) ==
  IF prev = <<>> THEN <<>>
  ELSE IF Head(prev).id # studentId
       THEN <<Head(prev)>> \o filterOut(Tail(prev), studentId)
       ELSE filterOut(Tail(prev), studentId)

\* setStudents(prev => prev.filter(s => s.id !== studentId))
removeStudent(prev, studentId) == filterOut(prev, studentId)

\* Whether setItem succeeds (TRUE) or throws (FALSE).
SaveOutcomes == BOOLEAN

\* Mutant: the persistence effect without its isLoading guard.
shouldPersistAlways(list, loading) == Len(list) >= 0

\* Mutant: an empty list is not worth saving.
shouldPersistNonEmpty(list, loading) == ~loading /\ Len(list) > 0

\* The condition of the persistence effect.
shouldPersist(list, loading) == ~loading /\ Len(list) >= 0

\* Mutant: a failed save drops the item.
persistEffectClearsOnFailure(list, loading, ok) ==
  IF shouldPersist(list, loading)
  THEN /\ blob' = IF ok THEN saveStudents(blob, list, ok) ELSE BlobAbsent
       /\ firstSave' = IF firstSave = <<>> THEN <<list>> ELSE firstSave
       /\ saveFailed' = (saveFailed \/ ~ok)
  ELSE UNCHANGED <<blob, firstSave, saveFailed>>

\* The effect on [students, isLoading]: it runs after every render in which
\* either changed, with the values of that render.
persistEffect(list, loading, ok) ==
  IF shouldPersist(list, loading)
  THEN /\ blob' = saveStudents(blob, list, ok)
       /\ firstSave' = IF firstSave = <<>> THEN <<list>> ELSE firstSave
       /\ saveFailed' = (saveFailed \/ ~ok)
  ELSE UNCHANGED <<blob, firstSave, saveFailed>>

\* -------------------------------------------------------------- StudentList

RECURSIVE filterMatchingNoEmail(_, _)
\* Mutant: the e-mail is not searched.
filterMatchingNoEmail(list, searchLower) ==
  IF list = <<>> THEN <<>>
  ELSE LET student == Head(list)
           hit == \/ includes(toLowerCase(student.name), searchLower)
                  \/ includes(toLowerCase(student.enrolledCourse), searchLower)
       IN  (IF hit THEN <<student>> ELSE <<>>)
             \o filterMatchingNoEmail(Tail(list), searchLower)

RECURSIVE filterMatching(_, _)
filterMatching(list, searchLower) ==
  IF list = <<>> THEN <<>>
  ELSE LET student == Head(list)
           hit == \/ includes(toLowerCase(student.name), searchLower)
                  \/ includes(toLowerCase(student.email), searchLower)
                  \/ includes(toLowerCase(student.enrolledCourse), searchLower)
       IN  (IF hit THEN <<student>> ELSE <<>>) \o filterMatching(Tail(list), searchLower)

\* The filteredStudents memo.
filteredStudents(list, term) ==
  IF trim(term) = <<>> THEN list ELSE filterMatching(list, toLowerCase(term))

\* ------------------------------------------------------------------ inputs

CustomImage == <<"https://example.com/image.jpg">>

\* A record a previous session created and saved.
StoredStudent ==
  [id |-> generateId(0, 0), name |-> StrAnn, email |-> StrEmailBobLower,
   enrolledCourse |-> mockCourses[1].name, profileImage |-> CustomImage,
   dateEnrolled |-> toISOString(0)]

\* What the localStorage item may hold when the application starts: nothing,
\* text that does not parse, or a list an earlier session saved.
InitialBlobs ==
  {BlobAbsent, BlobCorrupt,
   saveStudents(BlobAbsent, <<>>, TRUE),
   saveStudents(BlobAbsent, <<StoredStudent>>, TRUE)}

NameInputs == {StrBoPadded}
EmailInputs == {StrEmailBob, StrEmailPadded}
ImageInputs == {<<>>}

\* The characters search terms are made of, and every term of at most
\* MaxTermLen of them, with the term "bob".
TermAlphabet == {"b", "B", "o", " ", "@"}
TermInputs ==
  {StrBobTerm} \cup UNION {[1..n -> TermAlphabet] : n \in 0..MaxTermLen}
\* The suffix Math.random() contributes to an id.
RandValues == {0}
\* One of the 1000 photo numbers the placeholder URL is built from.
PhotoNumbers == {PhotoBase}

\* The courses the user picks among those offered.
CourseInputs == {mockCourses[1].name}

\* The options of the course <select>: the empty option and one per course.
courseOptions == {<<>>} \cup {courses[i].name : i \in 1..Len(courses)}

\* --------------------------------------------------------------------- Init

Init ==
  /\ mounted = FALSE
  /\ now = 1
  /\ blob \in InitialBlobs
  /\ students = <<>>
  /\ studentsLoading = TRUE
  /\ loaded = <<>>
  /\ firstSave = <<>>
  /\ saveFailed = FALSE
  /\ courses = <<>>
  /\ coursesLoading = TRUE
  /\ coursesError = <<>>
  /\ pendingFetches = 0
  /\ showForm = FALSE
  /\ editingStudent = <<>>
  /\ searchTerm = <<>>
  /\ formData = EmptyForm
  /\ errors = NoErrors
  /\ isSubmitting = FALSE
  /\ submission = <<>>

\* ------------------------------------------------------------------ actions

\* Mutant: the fetch starts without setIsLoading(true).
fetchCoursesDataNoLoadingFlag ==
  /\ coursesLoading' = coursesLoading
  /\ coursesError' = <<>>
  /\ pendingFetches' = pendingFetches + 1
  /\ UNCHANGED courses

\* fetchCoursesData, up to its await: setIsLoading(true); setError(null).
fetchCoursesData ==
  /\ coursesLoading' = TRUE
  /\ coursesError' = <<>>
  /\ pendingFetches' = pendingFetches + 1
  /\ UNCHANGED courses

\* The first render of App and its mount effects: loadStudents starts its
\* timer, the persistence effect runs once, the course fetch starts.
Mount ==
  /\ ~mounted
  /\ mounted' = TRUE
  /\ \E ok \in SaveOutcomes : persistEffect(students, studentsLoading, ok)
  /\ fetchCoursesData
  /\ UNCHANGED <<now, students, studentsLoading, loaded, appVars, formVars>>

\* loadStudents after its timer: setStudents(getStoredStudents()), then
\* setIsLoading(false) in the finally block; the persistence effect follows.
loadStudents ==
  /\ mounted
  /\ studentsLoading
  /\ LET storedStudents == getStoredStudents(blob)
     IN  /\ students' = storedStudents
         /\ loaded' = <<storedStudents>>
         /\ studentsLoading' = FALSE
         /\ \E ok \in SaveOutcomes : persistEffect(storedStudents, FALSE, ok)
  /\ UNCHANGED <<mounted, now, courseVars, appVars, formVars>>

\* fetchCourses resolves and fetchCoursesData continues after its await.  Its
\* timer (800 ms) is set in the same mount as the one of loadStudents
\* (500 ms), so the first fetch resolves after the students are loaded.
fetchResolved(failed) ==
  /\ pendingFetches > 0
  /\ ~studentsLoading
  /\ pendingFetches' = pendingFetches - 1
  /\ IF failed
     THEN /\ coursesError' = <<"Failed to fetch courses from server">>
          /\ courses' = <<>>
     ELSE /\ courses' = mockCourses
          /\ UNCHANGED coursesError
  /\ coursesLoading' = FALSE
  /\ UNCHANGED <<mounted, now, blob, studentVars, appVars, formVars>>

FetchSucceeds == fetchResolved(FALSE)

FetchFails == fetchResolved(TRUE)

\* Mutant: a retry button that is there whenever no fetch is under way.
retryWhenReady ==
  /\ mounted
  /\ ~studentsLoading
  /\ ~coursesLoading
  /\ fetchCoursesData
  /\ UNCHANGED <<mounted, now, blob, studentVars, appVars, formVars>>

\* The retry button of the error message, shown while coursesError is set.
retry ==
  /\ mounted
  /\ ~studentsLoading
  /\ coursesError # <<>>
  /\ fetchCoursesData
  /\ UNCHANGED <<mounted, now, blob, studentVars, appVars, formVars>>

\* The state of a StudentForm that is not mounted.
formUnmounted ==
  /\ formData' = EmptyForm
  /\ errors' = NoErrors
  /\ isSubmitting' = FALSE
  /\ submission' = <<>>

\* StudentForm under a new value of its student prop: a fresh mount when the
\* form was closed, the [student] effect when the prop changed.
formShown(student) ==
  IF ~showForm
  THEN /\ formData' = (IF student = <<>> THEN EmptyForm ELSE formOf(student[1]))
       /\ errors' = NoErrors
       /\ isSubmitting' = FALSE
       /\ submission' = <<>>
  ELSE IF student # editingStudent
  THEN /\ formData' = (IF student = <<>> THEN EmptyForm ELSE formOf(student[1]))
       /\ errors' = NoErrors
       /\ UNCHANGED <<isSubmitting, submission>>
  ELSE UNCHANGED formVars

\* Mutant: the header rendered, and its button live, while loading.
handleAddStudentWhileLoading ==
  /\ mounted
  /\ coursesError = <<>>
  /\ editingStudent' = <<>>
  /\ showForm' = TRUE
  /\ formShown(<<>>)
  /\ UNCHANGED <<mounted, now, blob, studentVars, courseVars, searchTerm>>

\* The "Add Student" button: rendered once the students are loaded,
\* disabled while coursesError is set.
handleAddStudent ==
  /\ mounted
  /\ ~studentsLoading
  /\ coursesError = <<>>
  /\ editingStudent' = <<>>
  /\ showForm' = TRUE
  /\ formShown(<<>>)
  /\ UNCHANGED <<mounted, now, blob, studentVars, courseVars, searchTerm>>

\* The edit button of a card of the filtered list.
handleEditStudent ==
  /\ mounted
  /\ ~studentsLoading
  /\ \E i \in 1..Len(filteredStudents(students, searchTerm)) :
       LET student == filteredStudents(students, searchTerm)[i]
       IN  /\ editingStudent' = <<student>>
           /\ showForm' = TRUE
           /\ formShown(<<student>>)
  /\ UNCHANGED <<mounted, now, blob, studentVars, courseVars, searchTerm>>

\* The cancel and close buttons, disabled while submitting.
handleFormCancel ==
  /\ showForm
  /\ ~isSubmitting
  /\ showForm' = FALSE
  /\ editingStudent' = <<>>
  /\ formUnmounted
  /\ UNCHANGED <<mounted, now, blob, studentVars, courseVars, searchTerm>>

\* handleInputChange of one control, with the clearing of that field's error.
inputChanged(field, value) ==
  /\ showForm
  /\ ~isSubmitting
  /\ formData' = [formData EXCEPT ![field] = value]
  /\ errors' = IF field \in DOMAIN errors /\ errors[field] # ""
               THEN [errors EXCEPT ![field] = ""] ELSE errors
  /\ UNCHANGED <<isSubmitting, submission>>
  /\ UNCHANGED <<mounted, now, blob, studentVars, courseVars, appVars>>

handleInputChange ==
  \/ \E v \in NameInputs : inputChanged("name", v)
  \/ \E v \in EmailInputs : inputChanged("email", v)
  \/ \E v \in ImageInputs : inputChanged("profileImage", v)
  \/ /\ ~coursesLoading
     /\ \E v \in courseOptions \cap ({<<>>} \cup CourseInputs) : inputChanged("enrolledCourse", v)

\* Mutant: the result of validateForm is not looked at.
handleSubmitUnchecked ==
  /\ showForm
  /\ ~isSubmitting
  /\ errors' = validateForm(formData)
  /\ isSubmitting' = TRUE
  /\ submission' = <<[formData |-> formData, student |-> editingStudent]>>
  /\ UNCHANGED formData
  /\ UNCHANGED <<mounted, now, blob, studentVars, courseVars, appVars>>

\* handleSubmit up to its await: validateForm, and on success
\* setIsSubmitting(true) with the render's formData and student captured.
handleSubmit ==
  /\ showForm
  /\ ~isSubmitting
  /\ errors' = validateForm(formData)
  /\ IF ~isValid(formData)
     THEN UNCHANGED <<formData, isSubmitting, submission>>
     ELSE /\ isSubmitting' = TRUE
          /\ submission' = <<[formData |-> formData, student |-> editingStudent]>>
          /\ UNCHANGED formData
  /\ UNCHANGED <<mounted, now, blob, studentVars, courseVars, appVars>>

\* handleFormSubmit of the submitted render: update when a student was being
\* edited, add otherwise.
handleFormSubmit(student, data) ==
  IF student # <<>> THEN updateStudent(students, data) ELSE addStudent(students, data)

\* Mutant: after its await handleSubmit reads the form as it is by then.
submitCompletedReadsState ==
  /\ isSubmitting
  /\ submission # <<>>
  /\ now < MaxClock
  /\ now' = now + 1
  /\ \E rand \in RandValues : \E p1 \in PhotoNumbers : \E p2 \in PhotoNumbers :
       LET data == studentData(formData, editingStudent, now', rand, p1, p2)
       IN  /\ students' = handleFormSubmit(editingStudent, data)
           /\ \E ok \in SaveOutcomes : persistEffect(students', studentsLoading, ok)
  /\ showForm' = FALSE
  /\ editingStudent' = <<>>
  /\ formUnmounted
  /\ UNCHANGED <<mounted, studentsLoading, loaded, courseVars, searchTerm>>

\* handleSubmit after its await: at least 500 ms later it builds the Student,
\* calls onSubmit, and App closes the form; the persistence effect follows.
submitCompleted ==
  /\ isSubmitting
  /\ submission # <<>>
  /\ now < MaxClock
  /\ now' = now + 1
  /\ \E rand \in RandValues : \E p1 \in PhotoNumbers : \E p2 \in PhotoNumbers :
       LET sub == submission[1]
           data == studentData(sub.formData, sub.student, now', rand, p1, p2)
       IN  /\ students' = handleFormSubmit(sub.student, data)
           /\ \E ok \in SaveOutcomes : persistEffect(students', studentsLoading, ok)
  /\ showForm' = FALSE
  /\ editingStudent' = <<>>
  /\ formUnmounted
  /\ UNCHANGED <<mounted, studentsLoading, loaded, courseVars, searchTerm>>

\* removeStudent of the hook, for a record of the list.
removeStudentCalled ==
  /\ mounted
  /\ \E i \in 1..Len(students) :
       /\ students' = removeStudent(students, students[i].id)
       /\ \E ok \in SaveOutcomes : persistEffect(students', studentsLoading, ok)
  /\ UNCHANGED <<mounted, now, studentsLoading, loaded, courseVars, appVars, formVars>>

\* The search box of StudentList, rendered once the students are loaded.
handleSearchChange ==
  /\ mounted
  /\ ~studentsLoading
  /\ \E term \in TermInputs : searchTerm' = term
  /\ UNCHANGED <<mounted, now, blob, studentVars, courseVars, showForm, editingStudent, formVars>>

Next ==
  \/ Mount
  \/ loadStudents
  \/ FetchSucceeds
  \/ FetchFails
  \/ retry
  \/ handleAddStudent
  \/ handleEditStudent
  \/ handleFormCancel
  \/ handleInputChange
  \/ handleSubmit
  \/ submitCompleted
  \/ removeStudentCalled

Spec == Init /\ [][Next]_vars

\* ------------------------------------------------- StudentList on its own

\* Records for the search filter: the two of the documented example, a
\* stored record, and one that differs from it in every searched field.
ExampleAnn ==
  [id |-> generateId(0, 0), name |-> StrAnn, email |-> <<>>,
   enrolledCourse |-> <<>>, profileImage |-> <<>>, dateEnrolled |-> toISOString(0)]

ExampleBob ==
  [id |-> generateId(0, 1), name |-> <<>>, email |-> StrEmailBobLower,
   enrolledCourse |-> <<>>, profileImage |-> <<>>, dateEnrolled |-> toISOString(0)]

OtherStudent ==
  [id |-> generateId(0, 2), name |-> <<"O","b","o">>, email |-> StrEmailAB,
   enrolledCourse |-> mockCourses[2].name, profileImage |-> CustomImage,
   dateEnrolled |-> toISOString(0)]

SearchRecords == {ExampleAnn, ExampleBob, StoredStudent, OtherStudent}

SearchLists ==
  {<<>>} \cup {<<a>> : a \in SearchRecords}
         \cup {<<p[1], p[2]>> : p \in {q \in SearchRecords \X SearchRecords : q[1] # q[2]}}

\* The dashboard after loading, showing one of the lists.
SearchInit ==
  /\ mounted = TRUE
  /\ now = 1
  /\ students \in SearchLists
  /\ blob = saveStudents(BlobAbsent, students, TRUE)
  /\ studentsLoading = FALSE
  /\ loaded = <<students>>
  /\ firstSave = <<students>>
  /\ saveFailed = FALSE
  /\ courses = mockCourses
  /\ coursesLoading = FALSE
  /\ coursesError = <<>>
  /\ pendingFetches = 0
  /\ showForm = FALSE
  /\ editingStudent = <<>>
  /\ searchTerm = <<>>
  /\ formData = EmptyForm
  /\ errors = NoErrors
  /\ isSubmitting = FALSE
  /\ submission = <<>>

SearchNext == handleSearchChange

SearchSpec == SearchInit /\ [][SearchNext]_vars

\* ------------------------------------------------------------ properties

studentIds(list) == {list[i].id : i \in 1..Len(list)}

\* C1: no save happens before the initial load has completed, the first
\* save that happens writes the list that was loaded, and no step taken
\* while loading changes what a well-formed, non-empty item holds.
C1_NoSaveBeforeHydration ==
  /\ [](studentsLoading => firstSave = <<>>)
  /\ [](firstSave # <<>> => loaded # <<>> /\ firstSave = loaded)
  /\ [][(studentsLoading /\ blob.kind = "json" /\ Len(blob.text) > 0)
          => getStoredStudents(blob') = getStoredStudents(blob)]_vars

\* The stored list has been loaded and was the argument of the first save.
C1_Witness ==
  /\ ~studentsLoading
  /\ loaded = <<(<<StoredStudent>>)>>
  /\ firstSave = loaded
  /\ getStoredStudents(blob) = <<StoredStudent>>

\* C2: while the students are loading the form is not shown and no
\* submission is pending, and the only change of the list is the
\* installation of the loaded list over the empty one.
C2_NoSubmissionWhileLoading ==
  /\ [](studentsLoading => ~showForm /\ ~isSubmitting /\ submission = <<>>)
  /\ [][(studentsLoading /\ students' # students)
          => /\ students = <<>>
             /\ ~studentsLoading'
             /\ students' = getStoredStudents(blob)]_vars

\* The loaded, non-empty list has just been installed.
C2_Witness ==
  /\ mounted
  /\ ~studentsLoading
  /\ Len(students) > 0
  /\ loaded = <<students>>
  /\ ~showForm
  /\ pendingFetches > 0

\* A pending submission completes as an add.
AddCommitted ==
  /\ isSubmitting
  /\ submission # <<>>
  /\ submission[1].student = <<>>
  /\ submitCompleted

\* A pending submission completes as an update of a record of the list.
UpdateCommitted ==
  /\ isSubmitting
  /\ submission # <<>>
  /\ submission[1].student # <<>>
  /\ submission[1].student[1].id \in studentIds(students)
  /\ submitCompleted

\* A pending submission completes as an update of a record that is gone.
UpdateOfMissing ==
  /\ isSubmitting
  /\ submission # <<>>
  /\ submission[1].student # <<>>
  /\ submission[1].student[1].id \notin studentIds(students)
  /\ submitCompleted

\* C3: a successful add puts exactly one record at the end of the list, with
\* an id no record had and the time of the call as its enrollment date,
\* leaves the records before it as they were, and search("") holds it.
C3_AddAppendsOne ==
  [][AddCommitted =>
       /\ Len(students') = Len(students) + 1
       /\ SubSeq(students', 1, Len(students)) = students
       /\ LET added == students'[Len(students')]
          IN  /\ added.id \notin studentIds(students)
              /\ added.id # <<>>
              /\ added.dateEnrolled = toISOString(now')
              /\ now' > now
              /\ \E i \in 1..Len(filteredStudents(students', <<>>)) :
                   filteredStudents(students', <<>>)[i] = added]_vars

\* A record made in this session stands behind the stored one.
C3_Witness ==
  /\ Len(students) = 2
  /\ students[1] = StoredStudent
  /\ students[2].id = generateId(now, 0)
  /\ students[2].dateEnrolled = toISOString(now)
  /\ now > 1
  /\ ~showForm

\* C4: a submission that fails validation sets the error set and nothing
\* else: the list and the stored item are as before and no commit is
\* pending; a pending commit always holds a draft that passed validation.
C4_InvalidSubmitChangesNothing ==
  /\ [][(showForm /\ ~isSubmitting /\ ~isValid(formData) /\ handleSubmit) =>
          /\ students' = students
          /\ blob' = blob
          /\ errors' = validateForm(formData)
          /\ errors' # NoErrors
          /\ ~isSubmitting'
          /\ submission' = <<>>
          /\ formData' = formData
          /\ showForm']_vars
  /\ [](submission # <<>> => isValid(submission[1].formData))

\* The form shows the errors of a rejected submission of a padded e-mail.
C4_Witness ==
  /\ showForm
  /\ ~isSubmitting
  /\ formData.email = StrEmailPadded
  /\ errors.email = "Please enter a valid email address"
  /\ Len(students) > 0
  /\ getStoredStudents(blob) = students

\* C5: a successful update replaces the record of the draft's id where it
\* stands: the length of the list and every other record stay as they were.
C5_UpdateReplacesInPlace ==
  [][UpdateCommitted =>
       LET id == submission[1].student[1].id
       IN  /\ Len(students') = Len(students)
           /\ \A i \in 1..Len(students) :
                IF students[i].id = id
                THEN /\ students'[i].id = id
                     /\ students'[i].name = trim(submission[1].formData.name)
                     /\ students'[i].enrolledCourse = submission[1].formData.enrolledCourse
                ELSE students'[i] = students[i]]_vars

\* The first of two records has been renamed by an update.
C5_Witness ==
  /\ Len(students) = 2
  /\ students[1].id = StoredStudent.id
  /\ students[1].name = StrBo
  /\ students[2].id # StoredStudent.id
  /\ ~showForm

\* C6: no step changes the enrollment date of a record that stays in the
\* list: records of the same id before and after have the same date.
C6_EnrollmentDateKept ==
  [][\A i \in 1..Len(students) : \A j \in 1..Len(students') :
       students[i].id = students'[j].id
         => students[i].dateEnrolled = students'[j].dateEnrolled]_vars

\* The stored record was updated after its creation and kept its date.
C6_Witness ==
  /\ now > 1
  /\ \E i \in 1..Len(students) :
       /\ students[i].id = StoredStudent.id
       /\ students[i] # StoredStudent
       /\ students[i].dateEnrolled = StoredStudent.dateEnrolled

\* C7 as stated: an update whose id matches no record fails: the list is
\* unchanged and the submission is not completed as a success (the form
\* stays open to report it).
C7_MissingIdFails ==
  [][UpdateOfMissing => (students' = students /\ showForm')]_vars

\* C7 as amended: an update whose id matches no record leaves the list
\* unchanged and is completed like a successful one: the form is closed,
\* nothing is being edited and no error is set.
C7_MissingIdIgnored ==
  [][UpdateOfMissing =>
       /\ students' = students
       /\ ~showForm'
       /\ editingStudent' = <<>>
       /\ errors' = NoErrors]_vars

\* An update is pending for a record that has been removed meanwhile.
C7_Witness ==
  /\ isSubmitting
  /\ submission # <<>>
  /\ submission[1].student # <<>>
  /\ submission[1].student[1].id \notin studentIds(students)
  /\ now < MaxClock

\* C8: the ids of the records of the list are pairwise distinct.
C8_IdsDistinct ==
  \A i \in 1..Len(students) : \A j \in 1..Len(students) :
    i # j => students[i].id # students[j].id

\* Two records made in this session stand behind the stored one.
C8_Witness ==
  /\ Len(students) = 3
  /\ students[1].id = StoredStudent.id
  /\ students[2].id[1] > 0
  /\ students[3].id[1] > 0

\* C9: the e-mail of every record of the list has no white space at either
\* end and no upper-case letter.
C9_EmailNormalized ==
  \A i \in 1..Len(students) :
    LET email == students[i].email
    IN  /\ email # <<>> =>
             (email[1] \notin Whitespace /\ email[Len(email)] \notin Whitespace)
        /\ \A k \in 1..Len(email) :
             \A u \in 1..Len(UpperLetters) : email[k] # UpperLetters[u]

\* A record made in this session from the e-mail typed with capitals.
C9_Witness ==
  \E i \in 1..Len(students) :
    /\ students[i].id[1] > 0
    /\ students[i].email = StrEmailBobLower
    /\ loaded = <<(<<>>)>>

\* Two characters that are the same letter, whatever their case.
sameLetter(a, b) ==
  \/ a = b
  \/ \E i \in 1..Len(UpperLetters) :
       \/ (a = UpperLetters[i] /\ b = LowerLetters[i])
       \/ (a = LowerLetters[i] /\ b = UpperLetters[i])

\* The text holds the term at some offset, case ignored.
containsIgnoringCase(text, term) ==
  \E off \in 0..(Len(text) - Len(term)) :
    \A k \in 1..Len(term) : sameLetter(text[off + k], term[k])

isBlank(term) == \A k \in 1..Len(term) : term[k] \in Whitespace

matchesTerm(student, term) ==
  \/ containsIgnoringCase(student.name, term)
  \/ containsIgnoringCase(student.email, term)
  \/ containsIgnoringCase(student.enrolledCourse, term)

\* C10: the search result is the list itself for an empty or white-space
\* term, and otherwise, in the order of the list, exactly the records whose
\* name, e-mail or course holds the term, case ignored; for the records
\* [{name: "Ann"}, {email: "x@bob.com"}] and "bob" it is the second alone.
C10_SearchFilter ==
  /\ filteredStudents(students, searchTerm) =
       IF isBlank(searchTerm) THEN students
       ELSE SelectSeq(students, LAMBDA s : matchesTerm(s, searchTerm))
  /\ (students = <<ExampleAnn, ExampleBob>> /\ searchTerm = StrBobTerm)
       => filteredStudents(students, searchTerm) = <<ExampleBob>>

\* The documented example: "bob" typed over the two records.
C10_Witness ==
  /\ students = <<ExampleAnn, ExampleBob>>
  /\ searchTerm = StrBobTerm
  /\ filteredStudents(students, searchTerm) = <<ExampleBob>>

\* ------------------------------------------------- validateForm on its own

\* Longest name and longest e-mail enumerated by ValidateSpec.
MaxNameLen == 3
MaxEmailLen == 5

NameAlphabet == {"a", " "}
EmailAlphabet == {"a", "@", ".", " "}

\* A value of the course field that no course of the directory has.
UnknownCourse == <<"Z","u","m","b","a">>

strings(alphabet, n) == UNION {[1..k -> alphabet] : k \in 0..n}

DraftNames == strings(NameAlphabet, MaxNameLen)
DraftEmails == {StrEmailAB} \cup strings(EmailAlphabet, MaxEmailLen)
DraftCourses == {<<>>, mockCourses[1].name, UnknownCourse}

\* Every name with a few e-mails, and every e-mail with a few names.
Drafts ==
  [name : DraftNames, email : {<<>>, StrEmailAB, StrEmailPadded},
   enrolledCourse : DraftCourses, profileImage : {<<>>}]
  \cup
  [name : {<<>>, StrA, StrAnn}, email : DraftEmails,
   enrolledCourse : DraftCourses, profileImage : {<<>>}]

\* The add form, open on a draft that has been typed in.
ValidateInit ==
  /\ mounted = TRUE
  /\ now = 1
  /\ blob = BlobAbsent
  /\ students = <<>>
  /\ studentsLoading = FALSE
  /\ loaded = <<(<<>>)>>
  /\ firstSave = <<(<<>>)>>
  /\ saveFailed = FALSE
  /\ courses = mockCourses
  /\ coursesLoading = FALSE
  /\ coursesError = <<>>
  /\ pendingFetches = 0
  /\ showForm = TRUE
  /\ editingStudent = <<>>
  /\ searchTerm = <<>>
  /\ formData \in Drafts
  /\ errors = NoErrors
  /\ isSubmitting = FALSE
  /\ submission = <<>>

ValidateNext == handleSubmit

ValidateSpec == ValidateInit /\ [][ValidateNext]_vars

\* The number of characters from the first to the last that is not white
\* space.
coreLength(s) ==
  LET solid == {i \in 1..Len(s) : s[i] \notin Whitespace}
  IN  IF solid = {} THEN 0
      ELSE 1 + (CHOOSE i \in solid : \A j \in solid : j <= i)
             - (CHOOSE i \in solid : \A j \in solid : i <= j)

\* C11 as stated: an empty name has a name error, and a non-empty name of
\* length at least 2 has none.
C11_NameRuleByLength ==
  /\ formData.name = <<>> => validateForm(formData).name # ""
  /\ Len(formData.name) >= 2 => validateForm(formData).name = ""

\* C11 as amended: an empty name has a name error, and a name of at least 2
\* characters once leading and trailing white space is dropped has none.
C11_NameRuleByTrimmedLength ==
  /\ formData.name = <<>> => validateForm(formData).name # ""
  /\ coreLength(formData.name) >= 2 => validateForm(formData).name = ""

\* A padded name of two letters has been submitted without a name error.
C11_Witness ==
  /\ formData.name = <<" ","a","a">>
  /\ formData.email = <<>>
  /\ errors.name = ""
  /\ errors.email # ""

\* C12: an e-mail without an @, or without a dot after its last @, has an
\* e-mail error; "a@b.com" has none.
C12_EmailRule ==
  LET email == formData.email
      ats == {i \in 1..Len(email) : email[i] = "@"}
      lacksAt == ats = {}
      lacksDomainDot ==
        \A i \in ats : (\A j \in ats : j <= i) =>
          \A k \in (i + 1)..Len(email) : email[k] # "."
  IN  /\ (lacksAt \/ lacksDomainDot) => validateForm(formData).email # ""
      /\ email = StrEmailAB => validateForm(formData).email = ""

\* "a@a" has been submitted and flagged.
C12_Witness ==
  /\ formData.email = <<"a","@","a">>
  /\ formData.name = StrAnn
  /\ errors.email = "Please enter a valid email address"
  /\ errors.name = ""

namePasses(name) == coreLength(name) >= MinNameLen
emailPasses(email) == ~isBlank(email) /\ validateEmail(email)
coursePasses(course) == course # <<>>

\* C13: each field's error depends on that field alone, whatever the errors
\* of the other two; a submission is accepted exactly when the three checks
\* pass; and any non-empty course passes, known or not.
C13_RulesIndependent ==
  /\ [](LET e == validateForm(formData)
        IN  /\ e.name = validateForm([EmptyForm EXCEPT !.name = formData.name]).name
            /\ e.email = validateForm([EmptyForm EXCEPT !.email = formData.email]).email
            /\ e.enrolledCourse =
                 validateForm([EmptyForm EXCEPT
                                 !.enrolledCourse = formData.enrolledCourse]).enrolledCourse
            /\ (e.name = "") = namePasses(formData.name)
            /\ (e.email = "") = emailPasses(formData.email)
            /\ (e.enrolledCourse = "") = coursePasses(formData.enrolledCourse))
  /\ [][handleSubmit =>
          /\ errors' = validateForm(formData)
          /\ isSubmitting' = (/\ namePasses(formData.name)
                              /\ emailPasses(formData.email)
                              /\ coursePasses(formData.enrolledCourse))]_vars

\* A draft with a course the directory does not have has been accepted.
C13_Witness ==
  /\ formData.enrolledCourse = UnknownCourse
  /\ \A i \in 1..Len(courses) : courses[i].name # UnknownCourse
  /\ isSubmitting
  /\ errors = NoErrors

\* ------------------------------------------------------ storage.ts on its own

\* Longest list handed to saveStudents by StorageSpec.
MaxStored == 2

StorageRecords == {ExampleAnn, ExampleBob, StoredStudent}
StorageLists == UNION {[1..n -> StorageRecords] : n \in 0..MaxStored}

\* What the item may hold: nothing, text that is no JSON, JSON that is no
\* list of students, or a list written by saveStudents.
StorageBlobs ==
  {BlobAbsent, BlobCorrupt, BlobNull, BlobEmptyObject}
  \cup {saveStudents(BlobAbsent, list, TRUE) : list \in StorageLists}

\* A caller that holds a list, any content of the item, nothing read yet.
StorageInit ==
  /\ mounted = FALSE
  /\ now = 1
  /\ blob \in StorageBlobs
  /\ students \in StorageLists
  /\ studentsLoading = FALSE
  /\ loaded = <<>>
  /\ firstSave = <<>>
  /\ saveFailed = FALSE
  /\ courses = <<>>
  /\ coursesLoading = TRUE
  /\ coursesError = <<>>
  /\ pendingFetches = 0
  /\ showForm = FALSE
  /\ editingStudent = <<>>
  /\ searchTerm = <<>>
  /\ formData = EmptyForm
  /\ errors = NoErrors
  /\ isSubmitting = FALSE
  /\ submission = <<>>

\* A call of getStoredStudents(); loaded keeps what it returned.
getStoredStudentsCalled ==
  /\ loaded' = <<getStoredStudents(blob)>>
  /\ UNCHANGED <<mounted, now, blob, students, studentsLoading, firstSave,
                 saveFailed, courseVars, appVars, formVars>>

\* A call of saveStudents(students), which setItem may refuse.
saveStudentsCalled ==
  \E ok \in SaveOutcomes :
    /\ blob' = saveStudents(blob, students, ok)
    /\ loaded' = <<>>
    /\ saveFailed' = (saveFailed \/ ~ok)
    /\ UNCHANGED <<mounted, now, students, studentsLoading, firstSave,
                   courseVars, appVars, formVars>>

StorageNext == getStoredStudentsCalled \/ saveStudentsCalled

StorageSpec == StorageInit /\ [][StorageNext]_vars

\* An array whose entries all have the properties of a Student.
isStudentList(value) ==
  /\ isArray(value)
  /\ \A i \in DOMAIN value :
       DOMAIN value[i] = {StudentFields[k] : k \in 1..Len(StudentFields)}

\* The item holds the serialization of some list of students.
holdsStudentList == \E list \in StorageLists : blob = saveStudents(blob, list, TRUE)

\* C14 as stated: getStoredStudents returns [] when the item is absent or
\* is not the serialization of a list of students, and whatever the item
\* holds it returns a list of students.
C14_LoadReturnsRecords ==
  loaded # <<>> =>
    /\ ~holdsStudentList => loaded[1] = <<>>
    /\ isStudentList(loaded[1])

\* C16: a list that is saved and then loaded comes back equal, field for
\* field and in order; and saving what was loaded and loading again gives
\* what was loaded first.
C16_RoundTrip ==
  /\ getStoredStudents(saveStudents(blob, students, TRUE)) = students
  /\ LET first == getStoredStudents(blob)
     IN  getStoredStudents(saveStudents(blob, first, TRUE)) = first
  /\ (loaded # <<>> /\ blob = saveStudents(blob, students, TRUE))
       => loaded[1] = students

\* Two different students have been saved and loaded back.
C16_Witness ==
  /\ students = <<ExampleBob, ExampleAnn>>
  /\ blob = saveStudents(blob, students, TRUE)
  /\ loaded = <<students>>

\* ------------------------------------------------- failing and working saves

\* The persistence effect has run in this step and its saveStudents call
\* has caught an error: the first one, or one that kept a new list from
\* being written.
saveFailedNow ==
  /\ loadStudents \/ submitCompleted \/ removeStudentCalled
  /\ saveFailed'
  /\ ~saveFailed \/ blob' # saveStudents(blob, students', TRUE)

\* C15: a save that fails is not noticed by the operation that caused it:
\* the operation completes as it does otherwise, the list in memory is the
\* one the operation made, and the item keeps its content, which only a
\* successful save of the whole list replaces.
C15_FailedSaveIsSilent ==
  /\ [][saveFailedNow =>
          /\ blob' = blob
          /\ ~studentsLoading'
          /\ loadStudents => students' = getStoredStudents(blob)
          /\ AddCommitted =>
               /\ Len(students') = Len(students) + 1
               /\ SubSeq(students', 1, Len(students)) = students
          /\ (UpdateCommitted \/ UpdateOfMissing) =>
               /\ Len(students') = Len(students)
               /\ studentIds(students') = studentIds(students)
          /\ removeStudentCalled => Len(students') = Len(students) - 1
          /\ submitCompleted => ~showForm' /\ ~isSubmitting' /\ errors' = NoErrors]_vars
  /\ [][blob' # blob => blob' = saveStudents(blob, students', TRUE)]_vars

\* Two students have been added though no save has ever worked, and the
\* list shows both.
C15_Witness ==
  /\ saveFailed
  /\ blob = BlobAbsent
  /\ Len(students) = 2
  /\ filteredStudents(students, searchTerm) = students

\* C17: once the students are loaded, a step that changes the list saves
\* the whole new list over the item unless that save fails; and when the
\* persistence effect has run and no save has failed, the item holds the
\* list in memory.
C17_SaveFollowsMutation ==
  /\ [][(~studentsLoading /\ students' # students) =>
          /\ firstSave' # <<>>
          /\ ~saveFailed' => blob' = saveStudents(blob, students', TRUE)
          /\ saveFailed' => blob' \in {blob, saveStudents(blob, students', TRUE)}]_vars
  /\ []((firstSave # <<>> /\ ~saveFailed) =>
          /\ blob = saveStudents(blob, students, TRUE)
          /\ getStoredStudents(blob) = students)

\* A student added in this session is stored behind the one loaded.
C17_Witness ==
  /\ ~saveFailed
  /\ Len(students) = 2
  /\ students[1] = StoredStudent
  /\ getStoredStudents(blob) = students
  /\ firstSave = <<(<<StoredStudent>>)>>

\* ------------------------------------------------------ the course directory

\* The timers of loadStudents and of fetchCourses fire: a pending load and a
\* pending fetch are each completed in the end.
FairSpec ==
  /\ Spec
  /\ WF_vars(loadStudents)
  /\ WF_vars(FetchSucceeds \/ FetchFails)

\* The states of useCourses: before its mount effect, while a fetch is
\* under way, and after a fetch that gave the courses or an error.
directoryIdle == ~mounted
directoryLoading == mounted /\ coursesLoading
directoryReady == mounted /\ ~coursesLoading /\ coursesError = <<>>
directoryFailed == mounted /\ ~coursesLoading /\ coursesError # <<>>

\* C18: the directory goes from idle or failed to loading by a fetch, from
\* loading to ready with the fetched courses or to failed with a message,
\* and nowhere else; and it does not stay loading for ever.
C18_DirectoryTransitions ==
  /\ [][/\ directoryIdle' => directoryIdle
        /\ (directoryLoading' /\ ~directoryLoading) =>
             /\ directoryIdle \/ directoryFailed
             /\ pendingFetches' = pendingFetches + 1
        /\ (directoryReady' /\ ~directoryReady) =>
             /\ directoryLoading
             /\ courses' = mockCourses
        /\ (directoryFailed' /\ ~directoryFailed) =>
             /\ directoryLoading
             /\ courses' = <<>>
        /\ directoryReady => directoryReady' /\ courses' = courses
        /\ directoryFailed => coursesError' \in {coursesError, <<>>}]_vars
  /\ [](directoryReady => courses = mockCourses)
  /\ (directoryLoading ~> (directoryReady \/ directoryFailed))

\* The fetch has ended with the courses, after an add was turned down for
\* its missing course.
C18_Witness ==
  /\ directoryReady
  /\ courses = mockCourses
  /\ pendingFetches = 0
  /\ showForm
  /\ errors.enrolledCourse # ""

\* C19: while the courses are loading or their fetch has failed, the list
\* of courses is empty and the form has no course to choose.
C19_NoCoursesUnlessReady ==
  (coursesLoading \/ coursesError # <<>>) =>
    /\ courses = <<>>
    /\ courseOptions = {<<>>}

\* The fetch has failed while the add form was open.
C19_Witness ==
  /\ directoryFailed
  /\ courses = <<>>
  /\ showForm
  /\ editingStudent = <<>>

\* C20: no step taken while the fetch of the courses has failed makes the
\* list longer, and no add is pending then with a course chosen.
C20_NoAddWhileFailed ==
  /\ [][directoryFailed => Len(students') <= Len(students)]_vars
  /\ [](directoryFailed => ~(isSubmitting /\ submission # <<>> /\ submission[1].student = <<>>))

\* With the fetch failed, an add with a good name and e-mail has been turned
\* down for its missing course.
C20_Witness ==
  /\ directoryFailed
  /\ showForm
  /\ editingStudent = <<>>
  /\ errors = [name |-> "", email |-> "", enrolledCourse |-> "Please select a course"]
  /\ formData.name # <<>>
  /\ formData.email # <<>>

\* ------------------------------------------------- useCourses called at will

\* Most fetches under way at once in ConcurrentSpec.
MaxFetches == 2

\* retry as the hook returns it: fetchCoursesData, whatever the state and
\* whether or not a fetch is under way.
retryCalled ==
  /\ mounted
  /\ pendingFetches < MaxFetches
  /\ fetchCoursesData
  /\ UNCHANGED <<mounted, now, blob, studentVars, appVars, formVars>>

\* The application with a caller of retry that does not wait for the error
\* message.
ConcurrentInit == Init /\ blob = BlobAbsent

ConcurrentNext == Next \/ retryCalled

ConcurrentSpec == ConcurrentInit /\ [][ConcurrentNext]_vars

\* C21 as stated: an error is never set together with a non-empty list of
\* courses, however fetches and retries interleave.
C21_ErrorExcludesCourses == ~(coursesError # <<>> /\ courses # <<>>)

\* C22 as stated: isLoading is true while a fetch is under way, and turns
\* false only when none is.
C22_LoadingWhilePending ==
  /\ [](pendingFetches > 0 => coursesLoading)
  /\ [][(coursesLoading /\ ~coursesLoading') => pendingFetches' = 0]_vars

\* ------------------------------------------------- a submission and its await

\* The record is the normalized form of the draft.
normalizedFrom(record, draft) ==
  /\ record.name = trim(draft.name)
  /\ record.email = toLowerCase(trim(draft.email))
  /\ record.enrolledCourse = draft.enrolledCourse

\* C23: the draft of a pending submission is the one validateForm accepted
\* when it started and no step changes it before it completes; the record
\* an add or an update commits is the normalized form of that draft; and a
\* submission completes once, adding at most one record.
C23_CommitsValidatedDraft ==
  /\ [](submission # <<>> => isSubmitting /\ isValid(submission[1].formData))
  /\ [][(submission = <<>> /\ submission' # <<>>) =>
          /\ isValid(formData)
          /\ submission' = <<[formData |-> formData, student |-> editingStudent]>>]_vars
  /\ [][(submission # <<>> /\ submission' # <<>>) =>
          /\ submission' = submission
          /\ students' = students \/ removeStudentCalled]_vars
  /\ [][AddCommitted =>
          /\ Len(students') = Len(students) + 1
          /\ normalizedFrom(students'[Len(students')], submission[1].formData)
          /\ submission' = <<>> /\ ~isSubmitting']_vars
  /\ [][UpdateCommitted =>
          /\ Len(students') = Len(students)
          /\ \A i \in 1..Len(students) :
               IF students[i].id = submission[1].student[1].id
               THEN normalizedFrom(students'[i], submission[1].formData)
               ELSE students'[i] = students[i]
          /\ submission' = <<>> /\ ~isSubmitting']_vars
  /\ [][(~studentsLoading /\ Len(students') > Len(students)) => AddCommitted]_vars

\* An add is pending while the form has been turned to the editing of a
\* student, whose data it now shows.
C23_Witness ==
  /\ isSubmitting
  /\ submission # <<>>
  /\ submission[1].student = <<>>
  /\ editingStudent # <<>>
  /\ formData # submission[1].formData
  /\ ~coursesLoading

====
